---- MODULE Spec2Model ----
(***************************************************************************)
(* The identity-and-playlist service of src/index.js as a state machine.   *)
(*                                                                         *)
(* State: the three tables the route handlers reach through db.prepare     *)
(* (users, playlists, playlist_songs, with the constraints of their        *)
(* CREATE TABLE statements), the wall clock, the session tokens the server *)
(* has signed, the handlers suspended at an await, the response being sent  *)
(* and the browser's cookie.  Node runs a handler without preemption up to its next await, so  *)
(* every synchronous handler is one action and the two async handlers      *)
(* (register, login) are two actions each, split at their await.           *)
(*                                                                         *)
(* The in-memory helpers of src/index.js lines 14-27 (findUserByEmail,     *)
(* createUser) are called by no route and are not modelled; the tables     *)
(* carry no created_at / added_at column, which no handler reads back      *)
(* except inside SELECT p.* of the playlist listing.                       *)
(* Message texts are written without their accents.                        *)
(*                                                                         *)
(* Of the client (src/unnamed/part_000) the module has the Auth form's     *)
(* handleSubmit and the player of the App component: its song list, its    *)
(* index and flags, and the src of its audio element.  The player calls no *)
(* route of the service.                                                   *)
(***************************************************************************)
EXTENDS Integers, Sequences, FiniteSets, Bags, TLC

VARIABLES users, playlists, playlist_songs, now, issued, inflight, last,
          jar, NODE_ENV

\* The state of the client's App component that its player uses: the
\* useState values as of the last render, the src of its audio element and
\* the isShuffle that the listener of the audio's ended event closed over.
VARIABLES canciones, playlistActiva, cancionesLocales, currentIndex,
          isShuffle, isRepeat, isPlaying, src, endedShuffle

player ==
    <<canciones, playlistActiva, cancionesLocales, currentIndex, isShuffle,
      isRepeat, isPlaying, src, endedShuffle>>

service ==
    <<users, playlists, playlist_songs, now, issued, inflight, last, jar,
      NODE_ENV>>

vars ==
    <<users, playlists, playlist_songs, now, issued, inflight, last, jar,
      NODE_ENV, player>>

----------------------------------------------------------------------------
(* Bounds of the model and the values requests are drawn from.             *)

MaxPlaylists == 2
MaxSongs == 2
MaxTokens == 2
MaxInflight == 2
TicksPerSecond == 2
MaxLocales == 2

Undefined == "undefined"
Emails == {"ana@x.com", "bob@x.com"}
Passwords == {"pw1", "pw2"}
Nombres == {"Ana"}
PlaylistNames == {"Road Trip"}
SongPaths == {"/musica/a.mp3", "/musica/b.mp3"}
IdParams == {"1", "2", "x"}
SampledDays == {0, 6, 7, 8}

----------------------------------------------------------------------------
(* Program constants.                                                      *)

JWT_SECRET == "dev_secret_change_me"
OtherSecret == "another_secret"
JWT_EXPIRES == 604800
DaySeconds == 86400

----------------------------------------------------------------------------
(* Time.  now counts ticks of 1/TicksPerSecond second, as Date.now()       *)
(* counts milliseconds; jsonwebtoken reads the clock as                    *)
(* Math.floor(Date.now() / 1000).                                          *)

ClockSeconds(t) == t \div TicksPerSecond

Days(d) == d * DaySeconds * TicksPerSecond

\* The sampled instants: every tick of the last second before and of the
\* first second after the start of each sampled day.
TimePoints ==
    { t \in { Days(d) + k : d \in SampledDays,
                           k \in (-TicksPerSecond)..(TicksPerSecond - 1) } :
        t >= 0 }

----------------------------------------------------------------------------
(* Cookie values a request can carry in req.cookies.token.                 *)

NoCookie == [kind |-> "none"]
Malformed == [kind |-> "malformed"]

\* Tokens signed with a key that is not the server's, for each user id.
ForgedTokens ==
    { [kind |-> "jwt", id |-> 1, email |-> "ana@x.com", nombre |-> "Ana",
       iat |-> 0, exp |-> 100 * DaySeconds, key |-> OtherSecret] }

\* issued holds, for each token the server signed, the token and the instant
\* at which it was signed.
IssuedTokens == { i.token : i \in issued }

Cookies == {NoCookie, Malformed} \cup ForgedTokens \cup IssuedTokens

----------------------------------------------------------------------------
(* bcrypt.  The digest of a password is a string that is not the password; *)
(* hash rejects without data, compare rejects without data and is true     *)
(* only of the digest of the same password.                                *)

bcryptHash(password) ==
    CASE password = "pw1" -> "$2b$10$digest.of.pw1"
      [] password = "pw2" -> "$2b$10$digest.of.pw2"
      [] OTHER -> "$2b$10$digest.of.other"

bcryptThrows(data) == data = Undefined

\* a compare that only looks whether a digest is stored
bcryptCompareStored(password, encrypted) == encrypted # ""

bcryptCompare(password, encrypted) == encrypted = bcryptHash(password)

----------------------------------------------------------------------------
(* jsonwebtoken.  sign stamps iat with the clock in whole seconds and exp  *)
(* with iat plus the lifetime; verify throws on a token that is not a JWT, *)
(* on a signature made with another key and once the clock in whole        *)
(* seconds has reached exp.                                                *)

jwtSign(user, secret, t) ==
    [kind |-> "jwt", id |-> user.id, email |-> user.email,
     nombre |-> user.nombre, iat |-> ClockSeconds(t),
     exp |-> ClockSeconds(t) + JWT_EXPIRES, key |-> secret]

\* verify without the signature check
jwtVerifyThrowsUnsigned(token, secret, t) ==
    \/ token.kind # "jwt"
    \/ ClockSeconds(t) >= token.exp

\* verify with ignoreExpiration
jwtVerifyThrowsIgnoreExpiration(token, secret, t) ==
    \/ token.kind # "jwt"
    \/ token.key # secret

jwtVerifyThrows(token, secret, t) ==
    \/ token.kind # "jwt"
    \/ token.key # secret
    \/ ClockSeconds(t) >= token.exp

----------------------------------------------------------------------------
(* SQL.  A table is the sequence of its rows in rowid order.               *)

RECURSIVE MaxId(_)
MaxId(rows) ==
    IF rows = <<>> THEN 0
    ELSE LET m == MaxId(Tail(rows))
         IN IF Head(rows).id > m THEN Head(rows).id ELSE m

\* INTEGER PRIMARY KEY AUTOINCREMENT: one more than the largest rowid.
NextRowid(rows) == MaxId(rows) + 1

\* A URL parameter is text; compared with an INTEGER column it is converted
\* when it reads as a number and is unequal to every integer otherwise.
NumericText(text) ==
    CASE text = "1" -> 1
      [] text = "2" -> 2
      [] text = "3" -> 3
      [] OTHER -> 0

LooksNumeric(text) == text \in {"1", "2", "3"}

ColumnEqualsParam(column, text) ==
    LooksNumeric(text) /\ column = NumericText(text)

\* Statement.get: the first row of the result, or none.
Get(rows) == IF rows = <<>> THEN <<>> ELSE <<Head(rows)>>

\* SELECT * FROM users WHERE email = ?
SelectUserByEmail(email) ==
    Get(SelectSeq(users, LAMBDA u : u.email = email))

\* users.email TEXT NOT NULL, without UNIQUE
UniqueEmailNotEnforced(email) == FALSE

\* users.email TEXT NOT NULL UNIQUE
UniqueEmailViolated(email) ==
    \E i \in DOMAIN users : users[i].email = email

\* a driver that binds undefined as NULL, into columns without NOT NULL
BindAcceptsUndefined(values) == FALSE

\* A bound value that is undefined makes the statement throw, as a NULL in
\* a NOT NULL column does.
BindThrows(values) == Undefined \in values

\* INSERT INTO users (nombre, email, password) VALUES (?, ?, ?)
InsertUserThrows(nombre, email, password) ==
    \/ BindThrows({nombre, email, password})
    \/ UniqueEmailViolated(email)

InsertUser(nombre, email, password) ==
    Append(users, [id |-> NextRowid(users), nombre |-> nombre,
                   email |-> email, password |-> password])

\* SELECT * FROM playlists WHERE id = ?
SelectPlaylistOfAnyOwner(id, user_id) ==
    Get(SelectSeq(playlists, LAMBDA p : ColumnEqualsParam(p.id, id)))

\* SELECT * FROM playlists WHERE user_id = ?
SelectAnyPlaylistOfOwner(id, user_id) ==
    Get(SelectSeq(playlists, LAMBDA p : p.user_id = user_id))

\* a handler that skips the lookup and takes the playlist as given
SelectPlaylistUnchecked(id, user_id) ==
    <<[id |-> NumericText(id), nombre |-> "", user_id |-> user_id]>>

\* SELECT * FROM playlists WHERE id = ? AND user_id = ?
SelectOwnedPlaylist(id, user_id) ==
    Get(SelectSeq(playlists,
          LAMBDA p : ColumnEqualsParam(p.id, id) /\ p.user_id = user_id))

\* playlist_songs without its PRIMARY KEY
PrimaryKeyNotEnforced(playlist_id, song_path) == FALSE

\* PRIMARY KEY(playlist_id, song_path)
PrimaryKeyConflict(playlist_id, song_path) ==
    \E i \in DOMAIN playlist_songs :
        /\ playlist_songs[i].playlist_id = playlist_id
        /\ playlist_songs[i].song_path = song_path

\* an insert that adds the row whether or not the pair is there
InsertSongAgain(id, song_path) ==
    Append(playlist_songs,
           [playlist_id |-> NumericText(id), song_path |-> song_path])

\* INSERT OR IGNORE INTO playlist_songs (playlist_id, song_path) VALUES (?, ?)
InsertOrIgnoreSong(id, song_path) ==
    IF PrimaryKeyConflict(NumericText(id), song_path)
    THEN playlist_songs
    ELSE Append(playlist_songs,
                [playlist_id |-> NumericText(id), song_path |-> song_path])

\* DELETE FROM playlist_songs WHERE playlist_id = ?
DeleteSongsOfPlaylist(playlistId, song_path) ==
    SelectSeq(playlist_songs,
        LAMBDA r : ~ColumnEqualsParam(r.playlist_id, playlistId))

\* DELETE FROM playlist_songs WHERE playlist_id = ? AND song_path = ?
DeleteSong(playlistId, song_path) ==
    SelectSeq(playlist_songs,
        LAMBDA r : ~(ColumnEqualsParam(r.playlist_id, playlistId)
                     /\ r.song_path = song_path))

\* SELECT song_path FROM playlist_songs
SelectSongPathsOfEveryPlaylist(id) ==
    [i \in 1..Len(playlist_songs) |-> playlist_songs[i].song_path]

\* SELECT song_path FROM playlist_songs WHERE playlist_id = ?
SelectSongPaths(id) ==
    LET rows == SelectSeq(playlist_songs,
                    LAMBDA r : ColumnEqualsParam(r.playlist_id, id))
    IN [i \in 1..Len(rows) |-> rows[i].song_path]

\* COUNT over a join that lost its ON condition
SongCountOfEveryPlaylist(playlist_id) == Len(playlist_songs)

SongCount(playlist_id) ==
    Len(SelectSeq(playlist_songs, LAMBDA r : r.playlist_id = playlist_id))

\* SELECT p.*, COUNT(ps.song_path) as song_count FROM playlists p
\* LEFT JOIN playlist_songs ps ON p.id = ps.playlist_id
\* WHERE p.user_id = ? GROUP BY p.id
SelectPlaylistsOf(user_id) ==
    LET rows == SelectSeq(playlists, LAMBDA p : p.user_id = user_id)
    IN [i \in 1..Len(rows) |->
          [id |-> rows[i].id, nombre |-> rows[i].nombre,
           user_id |-> rows[i].user_id, song_count |-> SongCount(rows[i].id)]]

\* an insert that binds a fixed owner instead of req.user.id
InsertPlaylistOfFirstUser(nombre, user_id) ==
    Append(playlists, [id |-> NextRowid(playlists), nombre |-> nombre,
                       user_id |-> 1])

\* DELETE FROM playlists WHERE id = ?, a statement no route runs, under the
\* schema as declared: FOREIGN KEY(playlist_id) REFERENCES playlists(id)
\* names no ON DELETE action.  Where the connection enforces foreign keys
\* the statement throws while the playlist has songs; where it does not,
\* the playlist row goes and its songs stay.  The source sets no pragma,
\* so both are outcomes.
DeletePlaylistOutcomes(playlist_id) ==
    LET remaining == SelectSeq(playlists, LAMBDA p : p.id # playlist_id)
        deleted == [thrown |-> FALSE, playlists |-> remaining,
                    playlist_songs |-> playlist_songs]
        refused == [thrown |-> TRUE, playlists |-> playlists,
                    playlist_songs |-> playlist_songs]
    IN IF SongCount(playlist_id) = 0 THEN {deleted} ELSE {deleted, refused}

\* INSERT INTO playlists (nombre, user_id) VALUES (?, ?)
InsertPlaylist(nombre, user_id) ==
    Append(playlists, [id |-> NextRowid(playlists), nombre |-> nombre,
                       user_id |-> user_id])

----------------------------------------------------------------------------
(* Errors.  What a failing call throws carries the text of its cause; the  *)
(* catch block of each route answers with its own status and message.      *)

Message(text) == [message |-> text]

HashError == "data and salt arguments required"
BindError == "NOT NULL constraint failed"
UniqueError == "UNIQUE constraint failed: users.email"
StorageError == "SQLITE_IOERR: disk I/O error"

\* a catch block that answers res.status(500).json({ message: err.message })
CaughtTellingCause(route, err) == [status |-> 500, body |-> Message(err)]

\* catch (err) { res.status(...).json({ message: '...' }) } of each route
Caught(route, err) ==
    CASE route = "register" ->
           [status |-> 400, body |-> Message("Error al registrar usuario")]
      [] route = "login" ->
           [status |-> 400, body |-> Message("Error al iniciar sesion")]
      [] route = "listPlaylists" ->
           [status |-> 500, body |-> Message("Error al obtener playlists")]
      [] route = "createPlaylist" ->
           [status |-> 400, body |-> Message("Error al crear playlist")]
      [] route = "addSong" ->
           [status |-> 400, body |-> Message("Error al agregar cancion")]
      [] route = "listSongs" ->
           [status |-> 500, body |-> Message("Error al obtener canciones")]
      [] route = "removeSong" ->
           [status |-> 500, body |-> Message("Error al eliminar cancion")]

----------------------------------------------------------------------------
(* The access-control gate.                                                *)

authMiddleware(req) ==
    IF req.cookie = NoCookie
    THEN [next |-> FALSE, status |-> 401, body |-> Message("No autenticado")]
    ELSE IF jwtVerifyThrows(req.cookie, JWT_SECRET, now)
         THEN [next |-> FALSE, status |-> 401,
               body |-> Message("Token invalido")]
         ELSE [next |-> TRUE, user |-> req.cookie]

----------------------------------------------------------------------------
(* The synchronous routes: what each answers to a request in the current   *)
(* state, and the tables it leaves.                                        *)

Reply(status, body) ==
    [status |-> status, body |-> body,
     playlists |-> playlists, playlist_songs |-> playlist_songs]

\* GET /api/playlists
listPlaylists(req) ==
    LET gate == authMiddleware(req)
    IN IF ~gate.next THEN Reply(gate.status, gate.body)
       ELSE Reply(200, [playlists |-> SelectPlaylistsOf(gate.user.id)])

\* POST /api/playlists
createPlaylist(req) ==
    LET gate == authMiddleware(req)
    IN IF ~gate.next THEN Reply(gate.status, gate.body)
       ELSE IF BindThrows({req.nombre})
            THEN Reply(Caught(req.route, BindError).status,
                       Caught(req.route, BindError).body)
            ELSE [status |-> 201,
                  body |-> [playlist |->
                              [id |-> NextRowid(playlists),
                               nombre |-> req.nombre,
                               user_id |-> gate.user.id,
                               song_count |-> 0]],
                  playlists |-> InsertPlaylist(req.nombre, gate.user.id),
                  playlist_songs |-> playlist_songs]

\* POST /api/playlists/:id/songs
addSong(req) ==
    LET gate == authMiddleware(req)
    IN IF ~gate.next THEN Reply(gate.status, gate.body)
       ELSE IF SelectOwnedPlaylist(req.id, gate.user.id) = <<>>
            THEN Reply(404, Message("Playlist no encontrada"))
            ELSE IF BindThrows({req.songPath})
                 THEN Reply(Caught(req.route, BindError).status,
                            Caught(req.route, BindError).body)
                 ELSE [status |-> 201,
                       body |-> Message("Cancion agregada"),
                       playlists |-> playlists,
                       playlist_songs |->
                           InsertOrIgnoreSong(req.id, req.songPath)]

\* GET /api/playlists/:id/songs
listSongs(req) ==
    LET gate == authMiddleware(req)
    IN IF ~gate.next THEN Reply(gate.status, gate.body)
       ELSE IF SelectOwnedPlaylist(req.id, gate.user.id) = <<>>
            THEN Reply(404, Message("Playlist no encontrada"))
            ELSE Reply(200, [songs |-> SelectSongPaths(req.id)])

\* a handler that runs its DELETE before it looks the playlist up
removeSongDeletingFirst(req) ==
    LET gate == authMiddleware(req)
    IN IF ~gate.next THEN Reply(gate.status, gate.body)
       ELSE IF SelectOwnedPlaylist(req.playlistId, gate.user.id) = <<>>
            THEN [status |-> 404,
                  body |-> Message("Playlist no encontrada"),
                  playlists |-> playlists,
                  playlist_songs |-> DeleteSong(req.playlistId, req.songPath)]
            ELSE [status |-> 200,
                  body |-> Message("Cancion eliminada"),
                  playlists |-> playlists,
                  playlist_songs |-> DeleteSong(req.playlistId, req.songPath)]

\* DELETE /api/playlists/:playlistId/songs/:songPath
removeSong(req) ==
    LET gate == authMiddleware(req)
    IN IF ~gate.next THEN Reply(gate.status, gate.body)
       ELSE IF SelectOwnedPlaylist(req.playlistId, gate.user.id) = <<>>
            THEN Reply(404, Message("Playlist no encontrada"))
            ELSE [status |-> 200,
                  body |-> Message("Cancion eliminada"),
                  playlists |-> playlists,
                  playlist_songs |-> DeleteSong(req.playlistId, req.songPath)]

----------------------------------------------------------------------------
(* Responses.                                                              *)

NoSetCookie == [op |-> "none"]
ClearCookie == [op |-> "clear", name |-> "token"]

\* res.cookie('token', token, { httpOnly, secure, maxAge })
LoginCookie(token) ==
    [op |-> "set", name |-> "token", value |-> token, httpOnly |-> TRUE,
     secure |-> (NODE_ENV = "production"),
     maxAge |-> 7 * 24 * 60 * 60 * 1000]

Response(req, status, body, cookie) ==
    [req |-> req, status |-> status, body |-> body, cookie |-> cookie]

\* A synchronous playlist route answers and leaves its tables.
Answer(req, result) ==
    /\ playlists' = result.playlists
    /\ playlist_songs' = result.playlist_songs
    /\ last' = Response(req, result.status, result.body, NoSetCookie)
    /\ UNCHANGED <<users, now, issued, inflight, jar, NODE_ENV, player>>

----------------------------------------------------------------------------
(* Initial state: empty tables, no token signed, nothing in flight, and    *)
(* the App component as its useState calls leave it.                       *)

NoRequest == [route |-> "none"]

Null == "null"

\* useState([]), useState(null), useState(0), useState(false) of App, and
\* <audio ref={audioRef}></audio> without a src.
InitPlayer ==
    /\ canciones = <<>>
    /\ playlistActiva = Null
    /\ cancionesLocales = <<>>
    /\ currentIndex = 0
    /\ isShuffle = FALSE
    /\ isRepeat = FALSE
    /\ isPlaying = FALSE
    /\ src = ""
    /\ endedShuffle = FALSE

Init ==
    /\ InitPlayer
    /\ users = <<>>
    /\ playlists = <<>>
    /\ playlist_songs = <<>>
    /\ now = 0
    /\ issued = {}
    /\ inflight = EmptyBag
    /\ last = Response(NoRequest, 0, Message(""), NoSetCookie)
    /\ jar = NoCookie
    /\ NODE_ENV = Undefined

----------------------------------------------------------------------------
(* Requests.  A body field that the client left out is Undefined.          *)

Optional(values) == values \cup {Undefined}

RegisterRequests ==
    { [route |-> "register", nombre |-> n, email |-> e, password |-> p] :
        n \in Optional(Nombres), e \in Optional(Emails),
        p \in Optional(Passwords) }

LoginRequests ==
    { [route |-> "login", email |-> e, password |-> p] :
        e \in Optional(Emails), p \in Optional(Passwords) }

\* The two accounts of the playlist scenarios.
Accounts ==
    { [email |-> "ana@x.com", password |-> "pw1"],
      [email |-> "bob@x.com", password |-> "pw2"] }

AccountRegisterRequests ==
    { req \in RegisterRequests :
        /\ req.nombre # Undefined
        /\ [email |-> req.email, password |-> req.password] \in Accounts }

AccountLoginRequests ==
    { req \in LoginRequests :
        [email |-> req.email, password |-> req.password] \in Accounts }

LogoutRequests == { [route |-> "logout", cookie |-> c] : c \in Cookies }

ListPlaylistsRequests ==
    { [route |-> "listPlaylists", cookie |-> c] : c \in Cookies }

CreatePlaylistRequests ==
    { [route |-> "createPlaylist", cookie |-> c, nombre |-> n] :
        c \in Cookies, n \in Optional(PlaylistNames) }

AddSongRequests ==
    { [route |-> "addSong", cookie |-> c, id |-> id, songPath |-> path] :
        c \in Cookies, id \in IdParams, path \in Optional(SongPaths) }

ListSongsRequests ==
    { [route |-> "listSongs", cookie |-> c, id |-> id] :
        c \in Cookies, id \in IdParams }

RemoveSongRequests ==
    { [route |-> "removeSong", cookie |-> c, playlistId |-> id,
       songPath |-> path] :
        c \in Cookies, id \in IdParams, path \in SongPaths }

PlaylistRequests ==
    ListPlaylistsRequests \cup CreatePlaylistRequests \cup AddSongRequests
      \cup ListSongsRequests \cup RemoveSongRequests

Suspended(route) ==
    { c \in BagToSet(inflight) : c.req.route = route }

InflightCount(route) ==
    BagCardinality(inflight) - BagCardinality(
        [c \in BagToSet(inflight) \ Suspended(route) |-> inflight[c]])

\* The previous response has left the server.
Idle == last.req = NoRequest

----------------------------------------------------------------------------
(* POST /api/register: up to the await of bcrypt.hash, then from it.       *)

\* What the try block of register throws, if it throws.
registerThrown(req) ==
    IF bcryptThrows(req.password) THEN HashError
    ELSE IF BindThrows({req.nombre, req.email}) THEN BindError
         ELSE UniqueError

\* a handler whose statement is INSERT OR REPLACE INTO users
registerReplacing(req) ==
    LET hashedPassword == bcryptHash(req.password)
    IN IF \/ bcryptThrows(req.password)
          \/ BindThrows({req.nombre, req.email})
       THEN [status |-> 400, body |-> Message("Error al registrar usuario"),
             users |-> users]
       ELSE [status |-> 201,
             body |-> Message("Usuario registrado exitosamente"),
             users |->
               Append(SelectSeq(users, LAMBDA u : u.email # req.email),
                      [id |-> NextRowid(users), nombre |-> req.nombre,
                       email |-> req.email, password |-> hashedPassword])]

\* The handler from the point where bcrypt.hash settles.
register(req) ==
    LET hashedPassword == bcryptHash(req.password)
    IN IF \/ bcryptThrows(req.password)
          \/ InsertUserThrows(req.nombre, req.email, hashedPassword)
       THEN [status |-> Caught(req.route, registerThrown(req)).status,
             body |-> Caught(req.route, registerThrown(req)).body,
             users |-> users]
       ELSE [status |-> 201,
             body |-> Message("Usuario registrado exitosamente"),
             users |-> InsertUser(req.nombre, req.email, hashedPassword)]

RegisterStart(req) ==
    /\ Idle
    /\ BagCardinality(inflight) < MaxInflight
    /\ inflight' = inflight (+) SetToBag({[req |-> req]})
    /\ UNCHANGED <<users, playlists, playlist_songs, now, issued, last,
                   jar, NODE_ENV, player>>

\* a handler that signs the new user in: it sets the session cookie and
\* answers with the user
RegisterFinishSigningIn ==
    \E c \in Suspended("register") :
        LET result == register(c.req)
            user == result.users[Len(result.users)]
        IN /\ Idle
           /\ inflight' = inflight (-) SetToBag({c})
           /\ users' = result.users
           /\ last' = IF result.status = 201
                      THEN Response(c.req, 201,
                             [user |-> [id |-> user.id, email |-> user.email,
                                        nombre |-> user.nombre]],
                             LoginCookie(jwtSign(user, JWT_SECRET, now)))
                      ELSE Response(c.req, result.status, result.body,
                                    NoSetCookie)
           /\ UNCHANGED <<playlists, playlist_songs, now, issued, jar,
                          NODE_ENV, player>>

RegisterFinish ==
    \E c \in Suspended("register") :
        /\ Idle
        /\ inflight' = inflight (-) SetToBag({c})
        /\ users' = register(c.req).users
        /\ last' = Response(c.req, register(c.req).status,
                            register(c.req).body, NoSetCookie)
        /\ UNCHANGED <<playlists, playlist_songs, now, issued, jar, NODE_ENV, player>>

----------------------------------------------------------------------------
(* POST /api/login: up to the await of bcrypt.compare, then from it.       *)

UserNotFound == [status |-> 400, body |-> Message("Credenciales invalidas")]
\* a wrong password told apart from an unknown email
InvalidPasswordTold ==
    [status |-> 400, body |-> Message("Contrasena incorrecta")]

InvalidPassword ==
    [status |-> 400, body |-> Message("Credenciales invalidas")]
LoginError == Caught("login", HashError)

\* The handler up to its await: it has answered, or it holds the user row.
loginSelect(req) ==
    IF BindThrows({req.email})
    THEN [answered |-> TRUE, status |-> LoginError.status,
          body |-> LoginError.body]
    ELSE IF SelectUserByEmail(req.email) = <<>>
         THEN [answered |-> TRUE, status |-> UserNotFound.status,
               body |-> UserNotFound.body]
         ELSE [answered |-> FALSE, user |-> SelectUserByEmail(req.email)[1]]

\* The handler from the point where bcrypt.compare settles.
loginCompare(req, user) ==
    IF bcryptThrows(req.password)
    THEN [status |-> LoginError.status, body |-> LoginError.body,
          cookie |-> NoSetCookie, issued |-> issued]
    ELSE IF ~bcryptCompare(req.password, user.password)
         THEN [status |-> InvalidPassword.status,
               body |-> InvalidPassword.body,
               cookie |-> NoSetCookie, issued |-> issued]
         ELSE LET token == jwtSign(user, JWT_SECRET, now)
              IN [status |-> 200,
                  body |-> [user |-> [id |-> user.id, email |-> user.email,
                                      nombre |-> user.nombre]],
                  cookie |-> LoginCookie(token),
                  issued |-> issued \cup {[token |-> token, at |-> now]}]

\* Whether the request would be given a token in the current state.
Admits(req) ==
    /\ ~loginSelect(req).answered
    /\ loginCompare(req, loginSelect(req).user).status = 200

LoginStart(req) ==
    /\ Idle
    /\ BagCardinality(inflight) < MaxInflight
    /\ Admits(req) =>
         Cardinality(issued) + InflightCount("login") < MaxTokens
    /\ IF loginSelect(req).answered
       THEN /\ last' = Response(req, loginSelect(req).status,
                                loginSelect(req).body, NoSetCookie)
            /\ inflight' = inflight
       ELSE /\ inflight' = inflight (+) SetToBag(
                   {[req |-> req, user |-> loginSelect(req).user]})
            /\ last' = last
    /\ UNCHANGED <<users, playlists, playlist_songs, now, issued, jar, NODE_ENV, player>>

\* a handler whose branch for a wrong password returns without res.json
LoginFinishSilentOnMismatch ==
    \E c \in Suspended("login") :
        LET result == loginCompare(c.req, c.user)
        IN /\ Idle
           /\ inflight' = inflight (-) SetToBag({c})
           /\ issued' = result.issued
           /\ last' = IF result.body = InvalidPassword.body
                      THEN last
                      ELSE Response(c.req, result.status, result.body,
                                    result.cookie)
           /\ UNCHANGED <<users, playlists, playlist_songs, now, jar, NODE_ENV, player>>

LoginFinish ==
    \E c \in Suspended("login") :
        LET result == loginCompare(c.req, c.user)
        IN /\ Idle
           /\ inflight' = inflight (-) SetToBag({c})
           /\ issued' = result.issued
           /\ last' = Response(c.req, result.status, result.body,
                               result.cookie)
           /\ UNCHANGED <<users, playlists, playlist_songs, now, jar, NODE_ENV, player>>

\* a logout that answers without res.clearCookie
logoutKeepingCookie(req) ==
    [status |-> 200, body |-> Message("Sesion cerrada"),
     cookie |-> NoSetCookie]

\* POST /api/logout
logout(req) ==
    [status |-> 200, body |-> Message("Sesion cerrada"),
     cookie |-> ClearCookie]

Logout(req) ==
    /\ Idle
    /\ last' = Response(req, logout(req).status, logout(req).body,
                        logout(req).cookie)
    /\ UNCHANGED <<users, playlists, playlist_songs, now, issued, inflight,
                   jar, NODE_ENV, player>>

----------------------------------------------------------------------------
(* The playlist routes, each run to its response in one step.              *)

ListPlaylists(req) == Idle /\ Answer(req, listPlaylists(req))

CreatePlaylist(req) ==
    /\ Idle
    /\ Len(playlists) < MaxPlaylists
    /\ Answer(req, createPlaylist(req))

AddSong(req) ==
    /\ Idle
    /\ Len(addSong(req).playlist_songs) <= MaxSongs
    /\ Answer(req, addSong(req))

ListSongs(req) == Idle /\ Answer(req, listSongs(req))

RemoveSong(req) == Idle /\ Answer(req, removeSong(req))

----------------------------------------------------------------------------
(* Storage failures.  Any statement of a handler may throw (the disk, the  *)
(* lock, the connection); the handler's catch block answers.               *)

\* A statement of a gated route throws: the gate, which reads no table,
\* has let the request through.
StorageFailure(req) ==
    /\ Idle
    /\ authMiddleware(req).next
    /\ last' = Response(req, Caught(req.route, StorageError).status,
                        Caught(req.route, StorageError).body, NoSetCookie)
    /\ UNCHANGED <<users, playlists, playlist_songs, now, issued, inflight,
                   jar, NODE_ENV, player>>

\* The INSERT of register throws after bcrypt.hash has settled.
RegisterStorageFailure ==
    \E c \in Suspended("register") :
        /\ Idle
        /\ ~bcryptThrows(c.req.password)
        /\ inflight' = inflight (-) SetToBag({c})
        /\ last' = Response(c.req, Caught(c.req.route, StorageError).status,
                            Caught(c.req.route, StorageError).body,
                            NoSetCookie)
        /\ UNCHANGED <<users, playlists, playlist_songs, now, issued, jar,
                       NODE_ENV, player>>

\* The SELECT of login throws.
LoginStorageFailure(req) ==
    /\ Idle
    /\ last' = Response(req, Caught(req.route, StorageError).status,
                        Caught(req.route, StorageError).body, NoSetCookie)
    /\ UNCHANGED <<users, playlists, playlist_songs, now, issued, inflight,
                   jar, NODE_ENV, player>>

\* The response leaves the server for the client.
Deliver ==
    /\ ~Idle
    /\ last' = Response(NoRequest, 0, Message(""), NoSetCookie)
    /\ jar' = CASE last.cookie.op = "set" -> last.cookie.value
                [] last.cookie.op = "clear" -> NoCookie
                [] OTHER -> jar
    /\ UNCHANGED <<users, playlists, playlist_songs, now, issued, inflight,
                   NODE_ENV, player>>

\* Auth.handleSubmit of the client, from the response of its fetch on:
\* if (response.ok) { const data = await response.json();
\* onLogin(data.user); }.  The argument of onLogin is written as Get writes
\* a row: <<user>>, or <<>> when the body carries no user and data.user
\* reads undefined.
handleSubmit(response) ==
    IF response.status \in 200..299
    THEN [onLogin |-> TRUE,
          argument |-> IF "user" \in DOMAIN response.body
                       THEN <<response.body.user>>
                       ELSE <<>>]
    ELSE [onLogin |-> FALSE]

\* Time passes between two requests.
Advance(t) ==
    /\ Idle
    /\ t > now
    /\ now' = t
    /\ UNCHANGED <<users, playlists, playlist_songs, issued, inflight, last,
                   jar, NODE_ENV, player>>

----------------------------------------------------------------------------
(* The player of the client's App component (src/unnamed/part_000).  An    *)
(* event handler runs with the state of the render it was created in: what *)
(* it reads is the unprimed state, and the values it passes to the         *)
(* setters are the state of the next render.  A write to audioRef.current  *)
(* takes effect at once.                                                   *)

\* Three of the playlists of App, with the files of musicFiles that their
\* patterns select.
AppPlaylists ==
    << [nombre |-> "Rock Clasico",
        canciones |-> << "/musica/ACDC - Back In Black (Official Video).mp3",
                         "/musica/ACDC - Highway to Hell (Official Video).mp3",
                         "/musica/ACDC - Thunderstruck (Official Video).mp3" >>],
       [nombre |-> "Rock Nacional",
        canciones |-> << "/musica/Andres Calamaro - Flaca.mp3",
                         "/musica/Ciro y Los Persas  ASTROS.mp3" >>],
       [nombre |-> "Heavy Metal Clasicos",
        canciones |-> << "/musica/Blackened (Remastered).mp3" >>] >>

\* The files the user can pick in the file input.
LocalFiles == {"uno.mp3", "dos.mp3"}

createObjectURL(file) ==
    CASE file = "uno.mp3" -> "blob:uno"
      [] file = "dos.mp3" -> "blob:dos"

\* list[i] of JavaScript: indexes start at 0 and an index outside the
\* array reads undefined.
At(list, i) ==
    IF i \in 0..(Len(list) - 1) THEN list[i + 1] ELSE Undefined

\* a % n of JavaScript: the remainder has the sign of the dividend.
Remainder(a, n) ==
    IF a >= 0 THEN a % n ELSE -((-a) % n)

\* Math.floor(Math.random() * n)
RandomIndexes(n) == IF n = 0 THEN {0} ELSE 0..(n - 1)

\* an index taken without adding the length first: index % canciones.length
newIndexOfRemainder(index) ==
    Remainder(index, Len(canciones))

\* const newIndex = (index + canciones.length) % canciones.length
newIndex(index) ==
    Remainder(index + Len(canciones), Len(canciones))

\* playSong: what it leaves in currentIndex, audioRef.current.src and
\* isPlaying.
playSong(index) ==
    IF Len(canciones) = 0
    THEN [currentIndex |-> currentIndex, src |-> src, isPlaying |-> isPlaying]
    ELSE [currentIndex |-> newIndex(index),
          src |-> At(canciones, newIndex(index)),
          isPlaying |-> TRUE]

prevSong == playSong(currentIndex - 1)

\* nextSong as closed over the given isShuffle: every result it can have.
nextSong(shuffle) ==
    IF shuffle
    THEN { playSong(randomIndex) : randomIndex \in RandomIndexes(Len(canciones)) }
    ELSE { playSong(currentIndex + 1) }

\* The effect with the dependencies [currentIndex, isRepeat, canciones]
\* registers handleEnded anew when one of them changed, and handleEnded
\* then closes over the isShuffle of that render.
Rerender ==
    endedShuffle' =
        IF <<currentIndex, isRepeat, canciones>>'
             # <<currentIndex, isRepeat, canciones>>
        THEN isShuffle'
        ELSE endedShuffle

Played(result) ==
    /\ currentIndex' = result.currentIndex
    /\ src' = result.src
    /\ isPlaying' = result.isPlaying

\* onClick, and onKeyDown with Enter, of a playlist item:
\* setPlaylistActiva(pl.nombre); setCanciones(pl.canciones); playSong(0).
SelectPlaylist(k) ==
    /\ playlistActiva' = AppPlaylists[k].nombre
    /\ canciones' = AppPlaylists[k].canciones
    /\ Played(playSong(0))
    /\ UNCHANGED <<service, cancionesLocales, isShuffle, isRepeat>>
    /\ Rerender

\* onChange of the file input, with one file picked.
UploadLocal(file) ==
    /\ Len(cancionesLocales) < MaxLocales
    /\ cancionesLocales' =
         Append(cancionesLocales,
                [nombre |-> file, url |-> createObjectURL(file)])
    /\ UNCHANGED <<service, canciones, playlistActiva, currentIndex,
                   isShuffle, isRepeat, isPlaying, src>>
    /\ Rerender

\* onClick of the delete button of a local song.
RemoveLocal(index) ==
    /\ index \in 0..(Len(cancionesLocales) - 1)
    /\ cancionesLocales' =
         [i \in 1..(Len(cancionesLocales) - 1) |->
            IF i <= index THEN cancionesLocales[i]
            ELSE cancionesLocales[i + 1]]
    /\ UNCHANGED <<service, canciones, playlistActiva, currentIndex,
                   isShuffle, isRepeat, isPlaying, src>>
    /\ Rerender

\* onClick of a local song, with the search box empty:
\* setPlaylistActiva("Locales"); setCanciones(urls); playSong(index).
SelectLocal(index) ==
    /\ index \in 0..(Len(cancionesLocales) - 1)
    /\ playlistActiva' = "Locales"
    /\ canciones' =
         [i \in 1..Len(cancionesLocales) |-> cancionesLocales[i].url]
    /\ Played(playSong(index))
    /\ UNCHANGED <<service, cancionesLocales, isShuffle, isRepeat>>
    /\ Rerender

\* togglePlay
TogglePlay ==
    /\ isPlaying' = ~isPlaying
    /\ UNCHANGED <<service, canciones, playlistActiva, cancionesLocales,
                   currentIndex, isShuffle, isRepeat, src>>
    /\ Rerender

ToggleShuffle ==
    /\ isShuffle' = ~isShuffle
    /\ UNCHANGED <<service, canciones, playlistActiva, cancionesLocales,
                   currentIndex, isRepeat, isPlaying, src>>
    /\ Rerender

ToggleRepeat ==
    /\ isRepeat' = ~isRepeat
    /\ UNCHANGED <<service, canciones, playlistActiva, cancionesLocales,
                   currentIndex, isShuffle, isPlaying, src>>
    /\ Rerender

\* onClick of the previous button.
PrevSong ==
    /\ Played(prevSong)
    /\ UNCHANGED <<service, canciones, playlistActiva, cancionesLocales,
                   isShuffle, isRepeat>>
    /\ Rerender

\* onClick of the next button.
NextSong ==
    /\ \E result \in nextSong(isShuffle) : Played(result)
    /\ UNCHANGED <<service, canciones, playlistActiva, cancionesLocales,
                   isShuffle, isRepeat>>
    /\ Rerender

\* handleEnded: the song the audio element was given has played to its end.
Ended ==
    /\ src # ""
    /\ IF isRepeat THEN Played(playSong(currentIndex))
       ELSE \E result \in nextSong(endedShuffle) : Played(result)
    /\ UNCHANGED <<service, canciones, playlistActiva, cancionesLocales,
                   isShuffle, isRepeat>>
    /\ Rerender

----------------------------------------------------------------------------
(* Spec: the playlist service used by the two accounts, one request at a   *)
(* time; more than a week may pass between two requests.  Logout, which    *)
(* touches no table, is left to SpecAccounts and SpecSession.              *)

Quiet == inflight = EmptyBag

Next ==
    \/ \E req \in AccountRegisterRequests : Quiet /\ RegisterStart(req)
    \/ RegisterFinish
    \/ \E req \in AccountLoginRequests : Quiet /\ LoginStart(req)
    \/ LoginFinish
    \/ \E req \in ListPlaylistsRequests : Quiet /\ ListPlaylists(req)
    \/ \E req \in CreatePlaylistRequests : Quiet /\ CreatePlaylist(req)
    \/ \E req \in AddSongRequests : Quiet /\ AddSong(req)
    \/ \E req \in ListSongsRequests : Quiet /\ ListSongs(req)
    \/ \E req \in RemoveSongRequests : Quiet /\ RemoveSong(req)
    \/ Deliver
    \/ Quiet /\ Advance(Days(8))

Spec == Init /\ [][Next]_vars

(* SpecAccounts: registration and login with any credentials, with up to   *)
(* MaxInflight handlers suspended at their await at the same time.         *)

NextAccounts ==
    \/ \E req \in RegisterRequests : RegisterStart(req)
    \/ RegisterFinish
    \/ \E req \in LoginRequests : LoginStart(req)
    \/ LoginFinish
    \/ \E req \in LogoutRequests : Logout(req)
    \/ Deliver

SpecAccounts == Init /\ [][NextAccounts]_vars

(* SpecSession: the lifetime of one account's sessions: login, logout and  *)
(* gated requests at the sampled instants of the clock.                    *)

SessionEmail == "ana@x.com"

NextSession ==
    \/ \E req \in AccountRegisterRequests :
          Quiet /\ req.email = SessionEmail /\ RegisterStart(req)
    \/ RegisterFinish
    \/ \E req \in AccountLoginRequests :
          Quiet /\ req.email = SessionEmail /\ LoginStart(req)
    \/ LoginFinish
    \/ \E req \in LogoutRequests : Quiet /\ Logout(req)
    \/ \E req \in ListPlaylistsRequests : Quiet /\ ListPlaylists(req)
    \/ \E req \in CreatePlaylistRequests : Quiet /\ CreatePlaylist(req)
    \/ Deliver
    \/ \E t \in TimePoints : Quiet /\ Advance(t)

SpecSession == Init /\ [][NextSession]_vars

(* SpecFields: requests with and without their body fields: register and *)
(* login with any fields, createPlaylist and addSong by the two accounts.  *)

NextFields ==
    \/ \E req \in RegisterRequests : Quiet /\ RegisterStart(req)
    \/ RegisterFinish
    \/ \E req \in LoginRequests : Quiet /\ LoginStart(req)
    \/ LoginFinish
    \/ \E req \in CreatePlaylistRequests : Quiet /\ CreatePlaylist(req)
    \/ \E req \in AddSongRequests : Quiet /\ AddSong(req)
    \/ Deliver

SpecFields == Init /\ [][NextFields]_vars

(* SpecCookie: the accounts' register, login and logout in a process      *)
(* started under any value of process.env.NODE_ENV.                        *)

Environments == {Undefined, "development", "staging", "production"}

InitEnvironment ==
    /\ InitPlayer
    /\ users = <<>>
    /\ playlists = <<>>
    /\ playlist_songs = <<>>
    /\ now = 0
    /\ issued = {}
    /\ inflight = EmptyBag
    /\ last = Response(NoRequest, 0, Message(""), NoSetCookie)
    /\ jar = NoCookie
    /\ NODE_ENV \in Environments

NextCookie ==
    \/ \E req \in AccountRegisterRequests : RegisterStart(req)
    \/ RegisterFinish
    \/ \E req \in AccountLoginRequests : LoginStart(req)
    \/ LoginFinish
    \/ \E req \in LogoutRequests : Quiet /\ Logout(req)
    \/ Deliver

SpecCookie == InitEnvironment /\ [][NextCookie]_vars

(* SpecFailures: one account's requests to every route that can answer    *)
(* an error, with any body fields, over a storage that may fail at any     *)
(* statement.                                                              *)

OfSessionAccount(req) == req.email \in {SessionEmail, Undefined}

NextFailures ==
    \/ \E req \in RegisterRequests :
          Quiet /\ OfSessionAccount(req) /\ RegisterStart(req)
    \/ RegisterFinish
    \/ RegisterStorageFailure
    \/ \E req \in LoginRequests :
          Quiet /\ OfSessionAccount(req) /\ LoginStart(req)
    \/ LoginFinish
    \/ \E req \in LoginRequests :
          Quiet /\ OfSessionAccount(req) /\ LoginStorageFailure(req)
    \/ \E req \in ListPlaylistsRequests : Quiet /\ ListPlaylists(req)
    \/ \E req \in CreatePlaylistRequests : Quiet /\ CreatePlaylist(req)
    \/ \E req \in AddSongRequests : Quiet /\ AddSong(req)
    \/ \E req \in ListSongsRequests : Quiet /\ ListSongs(req)
    \/ \E req \in RemoveSongRequests : Quiet /\ RemoveSong(req)
    \/ \E req \in PlaylistRequests : Quiet /\ StorageFailure(req)
    \/ Deliver

SpecFailures == Init /\ [][NextFailures]_vars

(* SpecPlayer: the player of the App component under the user's clicks    *)
(* and the audio element's ended event; the service is not called.         *)

NextPlayer ==
    \/ \E k \in DOMAIN AppPlaylists : SelectPlaylist(k)
    \/ \E file \in LocalFiles : UploadLocal(file)
    \/ \E index \in 0..(MaxLocales - 1) : RemoveLocal(index)
    \/ \E index \in 0..(MaxLocales - 1) : SelectLocal(index)
    \/ TogglePlay
    \/ ToggleShuffle
    \/ ToggleRepeat
    \/ PrevSong
    \/ NextSong
    \/ Ended

SpecPlayer == Init /\ [][NextPlayer]_vars

(* SpecStore: every route of the service, used by the two accounts one    *)
(* request at a time.                                                      *)

NextStore ==
    \/ \E req \in AccountRegisterRequests : Quiet /\ RegisterStart(req)
    \/ RegisterFinish
    \/ \E req \in AccountLoginRequests : Quiet /\ LoginStart(req)
    \/ LoginFinish
    \/ \E req \in LogoutRequests : Quiet /\ Logout(req)
    \/ \E req \in ListPlaylistsRequests : Quiet /\ ListPlaylists(req)
    \/ \E req \in CreatePlaylistRequests : Quiet /\ CreatePlaylist(req)
    \/ \E req \in AddSongRequests : Quiet /\ AddSong(req)
    \/ \E req \in ListSongsRequests : Quiet /\ ListSongs(req)
    \/ \E req \in RemoveSongRequests : Quiet /\ RemoveSong(req)
    \/ Deliver

SpecStore == Init /\ [][NextStore]_vars

(* SpecAnswers: one account's register and login, and gated requests     *)
(* that are let through, stopped with 401 or answered 404, arriving while  *)
(* handlers are suspended at their await.  The promise of bcrypt.hash and of            *)
(* bcrypt.compare always settles and the event loop then runs the          *)
(* handler's continuation, so the continuation of every suspended handler  *)
(* is taken if it can be taken again and again; a response written to the  *)
(* socket leaves the server.                                               *)

\* The requests whose handler reaches its await: a register with or
\* without its password, a login of the registered email with the right,
\* a wrong or no password.
AwaitedRequests ==
    { req \in RegisterRequests :
        req.nombre # Undefined /\ req.email = SessionEmail
          /\ req.password # "pw2" }
      \cup { req \in LoginRequests : req.email = SessionEmail }

\* A login that is answered before its await: no user has the email.
UnawaitedRequests ==
    { req \in LoginRequests : req.email = Undefined }

\* The continuation of the handler suspended for req.
Continue(req) ==
    /\ \/ RegisterFinish
       \/ LoginFinish
    /\ last'.req = req

NextAnswers ==
    \/ \E req \in AwaitedRequests :
          req.route = "register" /\ RegisterStart(req)
    \/ RegisterFinish
    \/ \E req \in AwaitedRequests \cup UnawaitedRequests :
          req.route = "login" /\ LoginStart(req)
    \/ LoginFinish
    \/ \E req \in ListPlaylistsRequests : ListPlaylists(req)
    \/ \E req \in AddSongRequests : AddSong(req)
    \/ Deliver

EventLoopRuns ==
    /\ WF_vars(Deliver)
    /\ \A req \in AwaitedRequests : SF_vars(Continue(req))

SpecAnswers == Init /\ [][NextAnswers]_vars /\ EventLoopRuns

----------------------------------------------------------------------------
(* What the claims speak of.                                               *)

\* The tokens the server signed whose lifetime has not run out.
LiveTokens == { t \in IssuedTokens : ClockSeconds(now) < t.exp }

\* The step runs a handler to its response.
Responds == Idle /\ ~Idle'

PlaylistRoutes ==
    {"listPlaylists", "createPlaylist", "addSong", "listSongs", "removeSong"}

Names(id, table) ==
    \E i \in DOMAIN table : ColumnEqualsParam(table[i].id, id)

OwnerOfParam(id, table) ==
    { table[i].user_id : i \in { j \in DOMAIN table :
                                   ColumnEqualsParam(table[j].id, id) } }

RecordOf(playlist_id, table) ==
    SelectSeq(table, LAMBDA p : p.id = playlist_id)

MembersOf(playlist_id, table) ==
    SelectSeq(table, LAMBDA r : r.playlist_id = playlist_id)

AnswerOf(result) == [status |-> result.status, body |-> result.body]

----------------------------------------------------------------------------
\* C1: a user with a live session who calls addSong, listSongs or
\* removeSong on the id of a playlist owned by someone else gets 404, and
\* the response (and the tables left) are those the same call gets on an id
\* that names no playlist.
NonOwnerSeesNotFound ==
    \A owned \in { id \in IdParams : Names(id, playlists) } :
      \A missing \in { id \in IdParams : ~Names(id, playlists) } :
        \A t \in { u \in LiveTokens :
                    u.id \notin OwnerOfParam(owned, playlists) } :
        /\ \A path \in Optional(SongPaths) :
             LET onOwned == addSong([route |-> "addSong", cookie |-> t,
                                     id |-> owned, songPath |-> path])
                 onMissing == addSong([route |-> "addSong", cookie |-> t,
                                       id |-> missing, songPath |-> path])
             IN onOwned.status = 404 /\ onOwned = onMissing
        /\ LET onOwned == listSongs([route |-> "listSongs", cookie |-> t,
                                     id |-> owned])
               onMissing == listSongs([route |-> "listSongs", cookie |-> t,
                                       id |-> missing])
           IN onOwned.status = 404 /\ onOwned = onMissing
        /\ \A path \in SongPaths :
             LET onOwned == removeSong([route |-> "removeSong",
                                cookie |-> t, playlistId |-> owned,
                                songPath |-> path])
                 onMissing == removeSong([route |-> "removeSong",
                                  cookie |-> t, playlistId |-> missing,
                                  songPath |-> path])
             IN onOwned.status = 404 /\ onOwned = onMissing

\* A user with a live session has been answered 404 by addSong on another
\* user's playlist.
NonOwnerWasRefused ==
    /\ last.req.route = "addSong"
    /\ last.status = 404
    /\ last.req.cookie \in LiveTokens
    /\ Names(last.req.id, playlists)
    /\ last.req.cookie.id \notin OwnerOfParam(last.req.id, playlists)

----------------------------------------------------------------------------
\* C2: a playlist request whose cookie is missing, malformed, signed with
\* another secret or expired is answered 401 and leaves users, playlists
\* and memberships as they were.
InvalidCookie(c) ==
    \/ c = NoCookie
    \/ c = Malformed
    \/ c.kind = "jwt" /\ c.key # JWT_SECRET
    \/ c \in IssuedTokens /\ now >= c.exp * TicksPerSecond

GateStopsInvalidTokens ==
    [][ ( /\ Responds
          /\ last'.req.route \in PlaylistRoutes
          /\ InvalidCookie(last'.req.cookie) )
        => ( /\ last'.status = 401
             /\ UNCHANGED <<users, playlists, playlist_songs>> ) ]_vars

\* An expired token of the server has been refused by addSong while a
\* playlist exists.
ExpiredTokenWasRefused ==
    /\ last.req.route = "addSong"
    /\ last.status = 401
    /\ last.req.cookie \in IssuedTokens
    /\ playlists # <<>>
    /\ Names(last.req.id, playlists)

----------------------------------------------------------------------------
\* C3: the record and the memberships of a playlist change only in a step
\* that answers a request carrying a live token of the playlist's owner,
\* and listSongs and listPlaylists show a playlist only to its owner.
PlaylistIds ==
    { playlists[i].id : i \in DOMAIN playlists }
      \cup { playlist_songs[i].playlist_id : i \in DOMAIN playlist_songs }

OnlyOwnerTouchesPlaylist ==
    [][ /\ \A id \in PlaylistIds \cup PlaylistIds' :
             ( \/ RecordOf(id, playlists) # RecordOf(id, playlists')
               \/ MembersOf(id, playlist_songs)
                    # MembersOf(id, playlist_songs') )
             => ( /\ Responds
                  /\ last'.req.route \in
                       {"createPlaylist", "addSong", "removeSong"}
                  /\ last'.req.cookie \in LiveTokens
                  /\ RecordOf(id, playlists') # <<>>
                  /\ \A i \in DOMAIN RecordOf(id, playlists') :
                       RecordOf(id, playlists')[i].user_id
                         = last'.req.cookie.id )
        /\ ( Responds /\ last'.req.route = "listSongs"
               /\ last'.status = 200 )
             => ( /\ last'.req.cookie \in LiveTokens
                  /\ OwnerOfParam(last'.req.id, playlists)
                       = {last'.req.cookie.id} )
        /\ ( Responds /\ last'.req.route = "listPlaylists"
               /\ last'.status = 200 )
             => \A i \in DOMAIN last'.body.playlists :
                  last'.body.playlists[i].user_id = last'.req.cookie.id
      ]_vars

\* The owner has added a song while another user holds a live session.
OwnerAddedBesideOtherUser ==
    /\ last.req.route = "addSong"
    /\ last.status = 201
    /\ \E t \in LiveTokens : t.id # last.req.cookie.id
    /\ MembersOf(NumericText(last.req.id), playlist_songs) # <<>>

----------------------------------------------------------------------------
\* C4: a register request for an email that is already registered is
\* answered 400 and leaves the users table as it was; no step changes or
\* removes a user that exists, and no two users ever share an email.
DuplicateEmailIsRefused ==
    [][ /\ ( /\ Responds
             /\ last'.req.route = "register"
             /\ \E i \in DOMAIN users : users[i].email = last'.req.email )
           => ( last'.status = 400 /\ users' = users )
        /\ \A i \in DOMAIN users :
             i \in DOMAIN users' /\ users'[i] = users[i]
        /\ \A i, j \in DOMAIN users' :
             i # j => users'[i].email # users'[j].email
      ]_vars

\* A complete register request for a registered email, with another
\* password, has been answered 400.
DuplicateEmailWasRefused ==
    /\ last.req.route = "register"
    /\ last.status = 400
    /\ last.req.nombre # Undefined
    /\ last.req.password # Undefined
    /\ \E i \in DOMAIN users :
         /\ users[i].email = last.req.email
         /\ users[i].password # bcryptHash(last.req.password)

----------------------------------------------------------------------------
----------------------------------------------------------------------------
\* C6: a login with a registered email and a wrong password is answered
\* with the status and the body of a login with an email nobody registered.
UnknownEmailAnswer ==
    loginSelect([route |-> "login", email |-> "nobody@x.com",
                 password |-> "pw1"])

WrongPasswordLikeUnknownEmail ==
    /\ UnknownEmailAnswer.answered
    /\ UnknownEmailAnswer.status # 200
    /\ \A i \in DOMAIN users, p \in Passwords :
         users[i].password # bcryptHash(p) =>
           AnswerOf(loginCompare([route |-> "login",
                                  email |-> users[i].email,
                                  password |-> p], users[i]))
             = AnswerOf(UnknownEmailAnswer)
    /\ ( /\ last.req.route = "login"
         /\ last.req.email # Undefined
         /\ last.req.password # Undefined
         /\ last.status # 200 )
       => AnswerOf(last) = AnswerOf(UnknownEmailAnswer)

\* A login with a registered email and a wrong password has been refused.
WrongPasswordWasRefused ==
    /\ last.req.route = "login"
    /\ last.status = 400
    /\ last.req.password \in Passwords
    /\ \E i \in DOMAIN users :
         /\ users[i].email = last.req.email
         /\ users[i].password # bcryptHash(last.req.password)

----------------------------------------------------------------------------
\* C7 as stated: a token signed at instant T passes the gate at every
\* instant before T + 7 days and is refused with 401 at every instant after
\* T + 7 days.
GateAnswer(token) ==
    listPlaylists([route |-> "listPlaylists", cookie |-> token]).status

TokenLivesSevenDays ==
    \A i \in issued :
        /\ now < i.at + Days(7) => GateAnswer(i.token) = 200
        /\ now > i.at + Days(7) => GateAnswer(i.token) = 401

\* C7 as amended: the token passes the gate at every instant up to one
\* second before T + 7 days and is refused with 401 at every instant from
\* T + 7 days on; in the last second before T + 7 days either may happen,
\* since the signing instant and the clock are cut to whole seconds.
TokenLivesSevenDaysOfWholeSeconds ==
    \A i \in issued :
        /\ now + TicksPerSecond <= i.at + Days(7) => GateAnswer(i.token) = 200
        /\ now >= i.at + Days(7) => GateAnswer(i.token) = 401

\* A token has passed the gate exactly one second before its seventh day
\* ended.
TokenPassedOneSecondBeforeSevenDays ==
    /\ last.req.route = "listPlaylists"
    /\ last.status = 200
    /\ \E i \in issued :
         /\ i.token = last.req.cookie
         /\ now + TicksPerSecond = i.at + Days(7)

----------------------------------------------------------------------------
\* C8: logout answers 200 with the cookie cleared and changes no table and
\* no token; once the browser's cookie is cleared, every token still in
\* its lifetime passes the gate and the playlist request it carries is
\* carried out.
ClearedCookieTokensWork ==
    jar = NoCookie =>
      \A t \in LiveTokens :
         /\ GateAnswer(t) = 200
         /\ \A n \in PlaylistNames :
              LET result == createPlaylist([route |-> "createPlaylist",
                                            cookie |-> t, nombre |-> n])
              IN /\ result.status = 201
                 /\ Len(result.playlists) = Len(playlists) + 1
         /\ ( last.req.route \in PlaylistRoutes /\ last.req.cookie = t )
              => last.status # 401
         /\ ( /\ last.req.route = "createPlaylist"
              /\ last.req.cookie = t
              /\ last.req.nombre # Undefined )
              => ( /\ last.status = 201
                   /\ playlists # <<>>
                   /\ playlists[Len(playlists)].user_id = t.id )

LogoutRevokesNothing ==
    [][ /\ ( Responds /\ last'.req.route = "logout" )
           => ( /\ last'.status = 200
                /\ last'.cookie = ClearCookie
                /\ UNCHANGED <<users, playlists, playlist_songs, issued>> )
        /\ ClearedCookieTokensWork'
      ]_vars

\* After the browser's cookie was cleared by a logout, a token signed
\* before it has created a playlist.
TokenUsedAfterLogout ==
    /\ jar = NoCookie
    /\ last.req.route = "createPlaylist"
    /\ last.status = 201
    /\ last.req.cookie \in LiveTokens

----------------------------------------------------------------------------
\* C9: every addSong with a path, by a caller with a live token who owns
\* the playlist, is answered 201 and leaves exactly one row for the
\* (playlist, path) pair, whether or not the pair was there before.
RowsOf(playlist_id, song_path) ==
    { i \in DOMAIN playlist_songs :
        /\ playlist_songs[i].playlist_id = playlist_id
        /\ playlist_songs[i].song_path = song_path }

OwnerAddSongAnswered ==
    /\ last.req.route = "addSong"
    /\ last.req.cookie \in LiveTokens
    /\ last.req.songPath # Undefined
    /\ OwnerOfParam(last.req.id, playlists) = {last.req.cookie.id}

AddSongTwiceKeepsOneRow ==
    OwnerAddSongAnswered =>
      /\ last.status = 201
      /\ Cardinality(RowsOf(NumericText(last.req.id), last.req.songPath)) = 1

\* The owner's addSong was answered 201 for a pair whose row is older than
\* another row of the table: the pair had been added before.
AddSongWasRepeated ==
    /\ OwnerAddSongAnswered
    /\ last.status = 201
    /\ Len(playlist_songs) = 2
    /\ RowsOf(NumericText(last.req.id), last.req.songPath) = {1}

----------------------------------------------------------------------------
\* C10: in whatever order addSong requests for the same playlist and path
\* are run, the table never holds two rows with the same
\* (playlist_id, song_path).
NoDuplicateMembership ==
    \A i, j \in DOMAIN playlist_songs :
        i # j =>
          \/ playlist_songs[i].playlist_id # playlist_songs[j].playlist_id
          \/ playlist_songs[i].song_path # playlist_songs[j].song_path

\* An addSong for a pair already in the table has been run and answered
\* 201, in a playlist that holds two songs.
SecondAddSongWasAnswered ==
    /\ last.req.route = "addSong"
    /\ last.status = 201
    /\ Len(playlist_songs) = 2
    /\ playlist_songs[1].playlist_id = playlist_songs[2].playlist_id
    /\ playlist_songs[1].playlist_id = NumericText(last.req.id)
    /\ playlist_songs[1].song_path = last.req.songPath

----------------------------------------------------------------------------
\* C11: removeSong by a caller with a live token who owns the playlist is
\* answered 200 whether or not the path is a member; it leaves the table
\* without the (playlist, path) row and with every other row as it was, in
\* the same order, and the same call made again in the state it leaves
\* gets the same response and leaves the same table.
WithoutPair(table, playlist_id, song_path) ==
    SelectSeq(table, LAMBDA r : ~( /\ r.playlist_id = playlist_id
                                   /\ r.song_path = song_path ))

RemoveSongIsIdempotent ==
    [][ \A req \in RemoveSongRequests :
          ( /\ Responds
            /\ last'.req = req
            /\ req.cookie \in LiveTokens
            /\ OwnerOfParam(req.playlistId, playlists) = {req.cookie.id} )
          => ( /\ last'.status = 200
               /\ playlists' = playlists
               /\ playlist_songs' =
                    WithoutPair(playlist_songs, NumericText(req.playlistId),
                                req.songPath)
               /\ RowsOf(NumericText(req.playlistId), req.songPath)' = {}
               /\ AnswerOf(removeSong(req))'
                    = [status |-> last'.status, body |-> last'.body]
               /\ removeSong(req).playlist_songs' = playlist_songs'
               /\ removeSong(req).playlists' = playlists' )
      ]_vars

\* The owner's removeSong was answered 200 for a path that was not a
\* member: the table is as full as it gets, so the call removed nothing,
\* and the rows of the playlist are still there.
RemoveSongOfAbsentPath ==
    /\ last.req.route = "removeSong"
    /\ last.status = 200
    /\ last.req.cookie \in LiveTokens
    /\ OwnerOfParam(last.req.playlistId, playlists) = {last.req.cookie.id}
    /\ Len(playlist_songs) = MaxSongs
    /\ MembersOf(NumericText(last.req.playlistId), playlist_songs) # <<>>

----------------------------------------------------------------------------
\* C12: listPlaylists with a live token is answered 200 with one entry for
\* each playlist whose user_id is the token's user and no other entry, and
\* the count in each entry is the number of rows playlist_songs holds for
\* that playlist in the state the response was read from.
OwnedBy(user_id) ==
    { i \in DOMAIN playlists : playlists[i].user_id = user_id }

MembershipCount(playlist_id) ==
    Cardinality({ i \in DOMAIN playlist_songs :
                    playlist_songs[i].playlist_id = playlist_id })

ListPlaylistsShowsOwnWithCounts ==
    ( last.req.route = "listPlaylists" /\ last.req.cookie \in LiveTokens )
    => /\ last.status = 200
       /\ Len(last.body.playlists) = Cardinality(OwnedBy(last.req.cookie.id))
       /\ \A i \in OwnedBy(last.req.cookie.id) :
            \E k \in DOMAIN last.body.playlists :
               /\ last.body.playlists[k].id = playlists[i].id
               /\ last.body.playlists[k].nombre = playlists[i].nombre
               /\ last.body.playlists[k].song_count
                    = MembershipCount(playlists[i].id)

\* A user who owns one playlist of two has been shown it with a count of
\* one while the other playlist holds a song too.
ListedOwnPlaylistWithOneSong ==
    /\ last.req.route = "listPlaylists"
    /\ last.status = 200
    /\ Len(last.body.playlists) = 1
    /\ last.body.playlists[1].song_count = 1
    /\ Len(playlists) = 2
    /\ Len(playlist_songs) = 2
    /\ playlist_songs[1].playlist_id # playlist_songs[2].playlist_id

----------------------------------------------------------------------------
\* C13: the paths of a playlist are those added by an addSong answered 201
\* and not removed since by a removeSong answered 200 (every step changes
\* the paths of every playlist in just that way), and listSongs by a
\* caller with a live token who owns the playlist is answered 200 with
\* exactly those paths, each once.
PathsOf(playlist_id) ==
    { playlist_songs[i].song_path :
        i \in { j \in DOMAIN playlist_songs :
                  playlist_songs[j].playlist_id = playlist_id } }

ListSongsShowsCurrentMembers ==
    [][ /\ \A id \in PlaylistIds \cup PlaylistIds' :
             PathsOf(id)' =
               IF /\ Responds
                  /\ last'.req.route = "addSong"
                  /\ last'.status = 201
                  /\ NumericText(last'.req.id) = id
               THEN PathsOf(id) \cup {last'.req.songPath}
               ELSE IF /\ Responds
                       /\ last'.req.route = "removeSong"
                       /\ last'.status = 200
                       /\ NumericText(last'.req.playlistId) = id
                    THEN PathsOf(id) \ {last'.req.songPath}
                    ELSE PathsOf(id)
        /\ ( /\ Responds
             /\ last'.req.route = "listSongs"
             /\ last'.req.cookie \in LiveTokens
             /\ OwnerOfParam(last'.req.id, playlists)
                  = {last'.req.cookie.id} )
           => ( /\ last'.status = 200
                /\ { last'.body.songs[k] : k \in DOMAIN last'.body.songs }
                     = PathsOf(NumericText(last'.req.id))
                /\ Len(last'.body.songs)
                     = Cardinality(PathsOf(NumericText(last'.req.id))) )
      ]_vars

\* The owner's listSongs on a playlist whose one song is "/musica/a.mp3"
\* was answered 200 with songs ["/musica/a.mp3"], while another playlist
\* holds a song of its own.
ListedTheOneSongAdded ==
    /\ last.req.route = "listSongs"
    /\ last.status = 200
    /\ last.body.songs = <<"/musica/a.mp3">>
    /\ Len(playlist_songs) = 2
    /\ playlist_songs[1].playlist_id # playlist_songs[2].playlist_id

----------------------------------------------------------------------------
\* C14: createPlaylist with a live token and a name is answered 201; it
\* adds one playlist row whose owner is the user the token was signed for,
\* with an id that no playlist has or ever had (no step removes or changes
\* a playlist row), and leaves every other row as it was.  The body is
\* {playlist: {id, nombre, songCount: 0}} in the claim as stated and
\* {playlist: {id, nombre, user_id, song_count: 0}} in the amended one.
CreatesOwnedFreshPlaylist(req) ==
    /\ last'.status = 201
    /\ Len(playlists') = Len(playlists) + 1
    /\ LET created == playlists'[Len(playlists')]
       IN /\ created.nombre = req.nombre
          /\ created.user_id = req.cookie.id
          /\ \E i \in DOMAIN users :
               /\ users[i].id = created.user_id
               /\ users[i].email = req.cookie.email
          /\ \A i \in DOMAIN playlists : playlists[i].id # created.id
          /\ last'.body.playlist.id = created.id

PlaylistRowsStay ==
    \A i \in DOMAIN playlists :
        i \in DOMAIN playlists' /\ playlists'[i] = playlists[i]

CreatePlaylistAnswered(req) ==
    /\ Responds
    /\ last'.req = req
    /\ req.cookie \in LiveTokens
    /\ req.nombre # Undefined

CreatePlaylistReturnsSongCount ==
    [][ /\ PlaylistRowsStay
        /\ \A req \in CreatePlaylistRequests :
             CreatePlaylistAnswered(req) =>
               /\ CreatesOwnedFreshPlaylist(req)
               /\ last'.body =
                    [playlist |->
                       [id |-> playlists'[Len(playlists')].id,
                        nombre |-> req.nombre,
                        songCount |-> 0]]
      ]_vars

CreatePlaylistReturnsRowWithCount ==
    [][ /\ PlaylistRowsStay
        /\ \A req \in CreatePlaylistRequests :
             CreatePlaylistAnswered(req) =>
               /\ CreatesOwnedFreshPlaylist(req)
               /\ last'.body =
                    [playlist |->
                       [id |-> playlists'[Len(playlists')].id,
                        nombre |-> req.nombre,
                        user_id |-> req.cookie.id,
                        song_count |-> 0]]
      ]_vars

\* The second registered user has created the second playlist.
SecondUserCreatedPlaylist ==
    /\ last.req.route = "createPlaylist"
    /\ last.status = 201
    /\ last.req.cookie \in LiveTokens
    /\ last.req.cookie.id = 2
    /\ Len(playlists) = 2
    /\ last.body.playlist.id = 2

----------------------------------------------------------------------------
\* C15: a playlist request gets the same status and the same body whatever
\* makes its cookie invalid: missing, malformed, signed with another
\* secret or expired.
\* The route the request is dispatched to.
Handled(req) ==
    CASE req.route = "listPlaylists" -> listPlaylists(req)
      [] req.route = "createPlaylist" -> createPlaylist(req)
      [] req.route = "addSong" -> addSong(req)
      [] req.route = "listSongs" -> listSongs(req)
      [] req.route = "removeSong" -> removeSong(req)

\* The response sent to a request with an invalid cookie is the one the
\* same request would get with any other invalid cookie.
GateTellsNoReason ==
    ( last.req \in PlaylistRequests /\ InvalidCookie(last.req.cookie) )
    => \A c \in Cookies :
         InvalidCookie(c) =>
           [status |-> last.status, body |-> last.body]
             = AnswerOf(Handled([last.req EXCEPT !.cookie = c]))

----------------------------------------------------------------------------
\* C16: a request that lacks a required body field is answered 400 and
\* leaves users, playlists and memberships as they were: register without
\* nombre, email or password, login without email or password,
\* createPlaylist without nombre by a caller with a live token, and addSong
\* without songPath by a caller with a live token who owns the playlist.
MissingFieldIsRefused ==
    [][ ( /\ Responds
          /\ \/ /\ last'.req.route = "register"
                /\ Undefined \in {last'.req.nombre, last'.req.email,
                                  last'.req.password}
             \/ /\ last'.req.route = "login"
                /\ Undefined \in {last'.req.email, last'.req.password}
             \/ /\ last'.req.route = "createPlaylist"
                /\ last'.req.cookie \in LiveTokens
                /\ last'.req.nombre = Undefined
             \/ /\ last'.req.route = "addSong"
                /\ last'.req.cookie \in LiveTokens
                /\ OwnerOfParam(last'.req.id, playlists)
                     = {last'.req.cookie.id}
                /\ last'.req.songPath = Undefined )
        => ( /\ last'.status = 400
             /\ UNCHANGED <<users, playlists, playlist_songs, issued>> )
      ]_vars

\* The owner's addSong without songPath has been answered 400 while the
\* playlist holds a song.
AddSongWithoutPathWasRefused ==
    /\ last.req.route = "addSong"
    /\ last.req.songPath = Undefined
    /\ last.status = 400
    /\ last.req.cookie \in LiveTokens
    /\ OwnerOfParam(last.req.id, playlists) = {last.req.cookie.id}
    /\ MembersOf(NumericText(last.req.id), playlist_songs) # <<>>

----------------------------------------------------------------------------
\* C17: every membership row names a playlist that exists and every
\* playlist names a user that exists.  As stated, the claim adds that
\* deleting a playlist removes its memberships; as amended, that no step
\* removes or changes a playlist or a user, so that no membership is left
\* behind a deleted playlist.
ReferencesHold(userRows, playlistRows, songRows) ==
    /\ \A i \in DOMAIN songRows :
         \E k \in DOMAIN playlistRows :
            playlistRows[k].id = songRows[i].playlist_id
    /\ \A k \in DOMAIN playlistRows :
         \E u \in DOMAIN userRows :
            userRows[u].id = playlistRows[k].user_id

----------------------------------------------------------------------------
\* C18: the cookie a successful login sets is named token, is HttpOnly,
\* carries a SameSite attribute, has a max age of 7 days which is the
\* lifetime of the token it holds, and is Secure unless the process runs
\* in local development (NODE_ENV unset or "development").
LocalDevelopment == {Undefined, "development"}

LoginCookieIsHardened ==
    ( last.req.route = "login" /\ last.status = 200 )
    => /\ last.cookie.op = "set"
       /\ last.cookie.name = "token"
       /\ last.cookie.httpOnly
       /\ last.cookie.maxAge = 7 * DaySeconds * 1000
       /\ last.cookie.maxAge
            = (last.cookie.value.exp - last.cookie.value.iat) * 1000
       /\ "sameSite" \in DOMAIN last.cookie
       /\ NODE_ENV \notin LocalDevelopment => last.cookie.secure

----------------------------------------------------------------------------
\* C19: every response with an error status is an object with the one
\* field message, whose text is one of the fixed texts of its route and
\* never the text of what was thrown; and a step in which a statement
\* throws answers the request with 400 or 500 and writes nothing.
Causes == {HashError, BindError, UniqueError, StorageError}

GateMessages == {"No autenticado", "Token invalido"}

ErrorMessages(route) ==
    CASE route = "register" -> {"Error al registrar usuario"}
      [] route = "login" ->
           {"Credenciales invalidas", "Error al iniciar sesion"}
      [] route = "listPlaylists" ->
           GateMessages \cup {"Error al obtener playlists"}
      [] route = "createPlaylist" ->
           GateMessages \cup {"Error al crear playlist"}
      [] route = "addSong" ->
           GateMessages \cup {"Playlist no encontrada",
                              "Error al agregar cancion"}
      [] route = "listSongs" ->
           GateMessages \cup {"Playlist no encontrada",
                              "Error al obtener canciones"}
      [] route = "removeSong" ->
           GateMessages \cup {"Playlist no encontrada",
                              "Error al eliminar cancion"}
      [] OTHER -> {}

StatementThrows ==
    \/ \E req \in PlaylistRequests : StorageFailure(req)
    \/ RegisterStorageFailure
    \/ \E req \in LoginRequests : LoginStorageFailure(req)

----------------------------------------------------------------------------
\* C20: of the register requests for one email that are suspended at
\* bcrypt.hash at the same time, whichever inserts first is answered 201
\* and adds the one user of that email, and from then on each of the
\* others is answered 400 and adds nothing, whatever its password.
UsersOf(email, table) ==
    { i \in DOMAIN table : table[i].email = email }

CompleteRegister(req) ==
    Undefined \notin {req.nombre, req.email, req.password}

OneOfConcurrentRegistersWins ==
    [][ \A c \in Suspended("register") :
          ( /\ Responds
            /\ last'.req = c.req
            /\ CompleteRegister(c.req) )
          => IF UsersOf(c.req.email, users) # {}
             THEN /\ last'.status = 400
                  /\ users' = users
             ELSE /\ last'.status = 201
                  /\ Len(users') = Len(users) + 1
                  /\ Cardinality(UsersOf(c.req.email, users')) = 1
                  /\ \A d \in Suspended("register")' :
                       d.req.email = c.req.email =>
                         /\ register(d.req)'.status = 400
                         /\ register(d.req)'.users = users'
      ]_vars

\* Two complete register requests for one email were suspended together;
\* one has been answered 201 and the other, with another password, is
\* still waiting.
FirstOfTwoRegistersAnswered ==
    /\ last.req.route = "register"
    /\ last.status = 201
    /\ \E d \in Suspended("register") :
         /\ d.req.email = last.req.email
         /\ CompleteRegister(d.req)
         /\ d.req.password # last.req.password

----------------------------------------------------------------------------
\* C21: a login that fails is answered with the status and the message the
\* same body would get with an email nobody registered, whether its
\* password is wrong or missing.
UnregisteredEmail == "nobody@x.com"

FailedLoginTellsNothingOfEmail ==
    ( /\ last.req.route = "login"
      /\ last.status # 200
      /\ UsersOf(last.req.email, users) # {} )
    => AnswerOf(last)
         = AnswerOf(loginSelect([last.req EXCEPT !.email = UnregisteredEmail]))

----------------------------------------------------------------------------
\* C22: every request is answered exactly once.  A step that sends a
\* response answers either the request it has just accepted or one handler
\* that was suspended, which it ends; a handler ends in no other way and
\* starts only by being suspended without a response; and every suspended
\* handler's request is eventually answered.
EndsOneHandler ==
    \E c \in BagToSet(inflight) :
        /\ c.req = last'.req
        /\ inflight' = inflight (-) SetToBag({c})

SuspendsOneHandler ==
    \E req \in AwaitedRequests :
        \E c \in Suspended(req.route)' :
            /\ c.req = req
            /\ inflight' = inflight (+) SetToBag({c})

AnsweredOnceStep ==
    /\ Responds =>
         /\ last'.status \in {200, 201, 400, 401, 404, 500}
         /\ IF last'.req \in AwaitedRequests /\ inflight' # inflight
            THEN EndsOneHandler
            ELSE inflight' = inflight
    /\ inflight' # inflight =>
         \/ Responds /\ EndsOneHandler
         \/ last' = last /\ SuspendsOneHandler
    /\ ~Idle => Idle' \/ last' = last

EveryRequestIsAnsweredOnce ==
    /\ [][AnsweredOnceStep]_vars
    /\ \A req \in AwaitedRequests :
         (\E c \in BagToSet(inflight) : c.req = req)
           ~> (last.req = req /\ last.status >= 200)

\* A login has been answered while a register accepted before it is still
\* suspended at bcrypt.hash.
LoginAnsweredBesideSuspendedRegister ==
    /\ last.req.route = "login"
    /\ last.status = 400
    /\ Suspended("register") # {}
    /\ users # <<>>

----------------------------------------------------------------------------
\* C23: login, logout, listPlaylists and listSongs leave users, playlists
\* and memberships as they were, and so does every request answered 401 or
\* 404; users changes only when a register is answered 201, playlists only
\* when a createPlaylist is answered 201, memberships only when an addSong
\* is answered 201 or a removeSong 200, and each leaves the other two
\* tables as they were.
ReadOnlyRoutes == {"login", "logout", "listPlaylists", "listSongs"}

AnsweredBy(routes, status) ==
    /\ Responds
    /\ last'.req.route \in routes
    /\ last'.status = status

OnlyWritersChangeTheirTable ==
    [][ /\ ( Responds /\ last'.req.route \in ReadOnlyRoutes )
           => UNCHANGED <<users, playlists, playlist_songs>>
        /\ ( Responds /\ last'.status \in {401, 404} )
           => UNCHANGED <<users, playlists, playlist_songs>>
        /\ users' # users
           => ( /\ AnsweredBy({"register"}, 201)
                /\ UNCHANGED <<playlists, playlist_songs>> )
        /\ playlists' # playlists
           => ( /\ AnsweredBy({"createPlaylist"}, 201)
                /\ UNCHANGED <<users, playlist_songs>> )
        /\ playlist_songs' # playlist_songs
           => ( /\ \/ AnsweredBy({"addSong"}, 201)
                   \/ AnsweredBy({"removeSong"}, 200)
                /\ UNCHANGED <<users, playlists>> )
      ]_vars

\* A user with a live token has been answered 404 by removeSong for a song
\* that another user's playlist holds.
RemoveSongOfOthersPlaylistRefused ==
    /\ last.req.route = "removeSong"
    /\ last.status = 404
    /\ last.req.cookie \in LiveTokens
    /\ RowsOf(NumericText(last.req.playlistId), last.req.songPath) # {}

----------------------------------------------------------------------------
\* C24: a register answered 201 sets no cookie and its body carries no
\* user, so what the Auth form hands to onLogin after it is undefined and
\* not a user object (after a login answered 200 it is the user); and as
\* long as no login has been answered 200 the browser holds no token and
\* every playlist request it sends is answered 401 and changes no table.
RegisterDoesNotAuthenticate ==
    /\ ( last.req.route = "register" /\ last.status = 201 )
       => /\ last.cookie = NoSetCookie
          /\ DOMAIN last.body = {"message"}
          /\ handleSubmit(last).onLogin
          /\ handleSubmit(last).argument = <<>>
    /\ ( last.req.route = "login" /\ last.status = 200 )
       => /\ handleSubmit(last).onLogin
          /\ Len(handleSubmit(last).argument) = 1
          /\ handleSubmit(last).argument[1].email = last.req.email
    /\ ( last.req.route \in {"register", "login"} /\ last.status = 400 )
       => ~handleSubmit(last).onLogin
    /\ issued = {}
       => /\ jar = NoCookie
          /\ \A req \in PlaylistRequests :
               req.cookie = jar =>
                 /\ Handled(req).status = 401
                 /\ Handled(req).playlists = playlists
                 /\ Handled(req).playlist_songs = playlist_songs

\* Both users are registered, nobody has logged in, and the createPlaylist
\* the browser sent with what its cookie jar holds has been answered 401.
RegisteredClientWasRefused ==
    /\ Len(users) = 2
    /\ issued = {}
    /\ last.req.route = "createPlaylist"
    /\ last.req.cookie = jar
    /\ last.req.nombre # Undefined
    /\ last.status = 401

----------------------------------------------------------------------------
\* C25: a click (or Enter) on a playlist item leaves the playlist's songs
\* as the song list, the playlist's first song as the src of the audio
\* element, currentIndex 0 and isPlaying true, whatever the song list was
\* before.
SelectingPlaylistPlaysItsFirstSong ==
    [][ \A k \in DOMAIN AppPlaylists :
          SelectPlaylist(k) =>
            /\ canciones' = AppPlaylists[k].canciones
            /\ src' = At(AppPlaylists[k].canciones, 0)
            /\ currentIndex' = 0
            /\ isPlaying'
      ]_vars

----------------------------------------------------------------------------
\* C26: with n songs in the list, n > 0, prevSong and nextSong (shuffle
\* off) leave currentIndex at (index + n) mod n for the index they pass to
\* playSong, so that prevSong at 0 leaves n - 1 and nextSong at n - 1
\* leaves 0, and the src of the audio element is the song at that index;
\* currentIndex is always one of 0..n-1; and with no song in the list they
\* change nothing.
ListLength == Len(canciones)

CurrentIndexWrapsAround ==
    [][ /\ ( PrevSong /\ ListLength > 0 )
           => /\ currentIndex' = (currentIndex - 1 + ListLength) % ListLength
              /\ currentIndex = 0 => currentIndex' = ListLength - 1
              /\ src' = canciones[currentIndex' + 1]
              /\ isPlaying'
        /\ ( NextSong /\ ~isShuffle /\ ListLength > 0 )
           => /\ currentIndex' = (currentIndex + 1 + ListLength) % ListLength
              /\ currentIndex = ListLength - 1 => currentIndex' = 0
              /\ src' = canciones[currentIndex' + 1]
              /\ isPlaying'
        /\ ( (PrevSong \/ NextSong) /\ ListLength = 0 )
           => UNCHANGED <<currentIndex, src, isPlaying, canciones>>
        /\ Len(canciones') > 0
           => currentIndex' \in 0..(Len(canciones') - 1)
      ]_vars

\* prevSong has wrapped from the first to the last of three songs, and the
\* audio element was given the last song.
PrevSongWrappedToLast ==
    /\ Len(canciones) = 3
    /\ currentIndex = 2
    /\ src = canciones[3]
    /\ isPlaying
    /\ ~isShuffle
    /\ playlistActiva = "Rock Clasico"

====
